---- MODULE Spec2Model ----
(***************************************************************************)
(* Verification model of metriki-core: the Timer metric with its scoped    *)
(* (TimerContext) and detached (TimerContextArc) sessions, Timer           *)
(* serialization, and the process-wide registry accessor global_registry.  *)
(***************************************************************************)
EXTENDS Integers, Sequences, FiniteSets

(* ---------------------------- bounds ---------------------------------- *)
MaxSessions == 2
MaxStops == 2
MaxMs == 1
UnitsPerMs == 2
MaxTime == MaxMs * UnitsPerMs

Sessions == 1..MaxSessions
Instants == 0..MaxTime
Results == {"r1", "r2"}
NoResult == "none"

MaxThreads == 2
MaxRegistries == 2
MaxMarks == 1

Threads == 1..MaxThreads
Registries == 1..MaxRegistries
Names == {"hello", "world"}
Absent == -1

VARIABLES now, rate, latency, ctx, call, marked, recorded,
          cell, constructed, reg, gpc, handle, snap, returned, registered,
          ser, held

timerVars == <<now, rate, latency, ctx, call, marked, recorded>>
globalVars == <<cell, constructed, reg, gpc, handle, snap, returned, registered>>
serVars == <<ser>>
readVars == <<held>>
nonTimerVars == <<globalVars, serVars, readVars>>
vars == <<timerVars, globalVars, serVars, readVars>>

(* ------------------------- Meter / Histogram --------------------------- *)
\* Meter::mark: the exact lifetime count grows by one.
Mark(m) == m + 1

\* Histogram::update: one more observation.
Update(h, v) == Append(h, v)

\* An elapsed time computed as a signed difference, without saturation.
ElapsedMs_signed(t, start_at) == (t - start_at) \div UnitsPerMs

\* Instant::now() - start_at (saturating), then Duration::as_millis.
ElapsedMs(t, start_at) == (IF t >= start_at THEN t - start_at ELSE 0) \div UnitsPerMs

NoContext == [kind |-> "none", start_at |-> 0, stops |-> 0, live |-> FALSE]
NoCall == [pc |-> "none", arg |-> NoResult, invoked |-> 0, result |-> NoResult, ret |-> NoResult]

\* Sessions are numbered in the order they are started.
Started == {s \in Sessions : ctx[s].kind # "none"}
NextSession(s) == s = Cardinality(Started) + 1

NoSnapshots == [taken |-> FALSE, result |-> <<>>, known |-> {}]

NoSerialization == [pc |-> "idle", declared |-> 0, latency |-> <<>>, out |-> <<>>]

NothingHeld == [taken |-> FALSE, snapshot |-> <<>>, count |-> 0]

TypeOK ==
    /\ now \in Instants
    /\ rate \in Nat
    /\ latency \in Seq(Nat)
    /\ \A s \in Sessions :
        /\ ctx[s].kind \in {"none", "scoped", "detached"}
        /\ ctx[s].start_at \in Instants
        /\ ctx[s].stops \in 0..MaxStops
        /\ ctx[s].live \in BOOLEAN
        /\ call[s].pc \in {"none", "f", "stop", "exit", "returned", "panicked"}
        /\ marked[s] \in Nat
        /\ recorded[s] \in Nat
    /\ cell.state \in {"incomplete", "running", "complete"}
    /\ cell.value \in 0..MaxRegistries
    /\ constructed \in 0..MaxRegistries
    /\ \A r \in Registries, n \in Names : reg[r][n] \in Absent..MaxMarks
    /\ \A t \in Threads :
        /\ gpc[t] \in {"idle", "get_or_init", "init", "holding"}
        /\ handle[t] \in 0..MaxRegistries
    /\ snap.taken \in BOOLEAN
    /\ returned \subseteq Registries
    /\ registered \subseteq Names
    /\ ser.pc \in {"idle", "entries", "done"}
    /\ ser.latency \in Seq(Nat)
    /\ Len(ser.out) <= ser.declared
    /\ held.taken \in BOOLEAN
    /\ held.snapshot \in Seq(Nat)
    /\ held.count \in Nat

Init ==
    /\ now = 0
    /\ rate = 0
    /\ latency = <<>>
    /\ ctx = [s \in Sessions |-> NoContext]
    /\ call = [s \in Sessions |-> NoCall]
    /\ marked = [s \in Sessions |-> 0]
    /\ recorded = [s \in Sessions |-> 0]
    /\ cell = [state |-> "incomplete", value |-> 0]
    /\ constructed = 0
    /\ reg = [r \in Registries |-> [n \in Names |-> Absent]]
    /\ gpc = [t \in Threads |-> "idle"]
    /\ handle = [t \in Threads |-> 0]
    /\ snap = NoSnapshots
    /\ returned = {}
    /\ registered = {}
    /\ ser = NoSerialization
    /\ held = NothingHeld

\* The monotonic clock advances.
Tick ==
    /\ now < MaxTime
    /\ now' = now + 1
    /\ UNCHANGED <<rate, latency, ctx, call, marked, recorded, nonTimerVars>>

(* ------------------------------ Timer ---------------------------------- *)
\* Timer::start_at that builds the context without marking the rate meter.
Timer_start_at_nomark(s, start_at) ==
    /\ NextSession(s)
    /\ UNCHANGED <<rate, marked>>
    /\ ctx' = [ctx EXCEPT ![s] = [kind |-> "scoped", start_at |-> start_at,
                                  stops |-> 0, live |-> TRUE]]

\* Timer::start_at: mark the rate meter, build the TimerContext.
Timer_start_at(s, start_at) ==
    /\ NextSession(s)
    /\ rate' = Mark(rate)
    /\ marked' = [marked EXCEPT ![s] = @ + 1]
    /\ ctx' = [ctx EXCEPT ![s] = [kind |-> "scoped", start_at |-> start_at,
                                  stops |-> 0, live |-> TRUE]]

\* Timer::start: start_at(Instant::now()).
Timer_start(s) == Timer_start_at(s, now)

TimerStart ==
    \E s \in Sessions :
        /\ Timer_start(s)
        /\ UNCHANGED <<now, latency, call, recorded, nonTimerVars>>

TimerStartAt ==
    \E s \in Sessions, t \in Instants :
        /\ Timer_start_at(s, t)
        /\ UNCHANGED <<now, latency, call, recorded, nonTimerVars>>

\* TimerContext::stop: record the elapsed milliseconds; the context is
\* borrowed (&self), it stays usable.
TimerContext_stop(s) ==
    /\ latency' = Update(latency, ElapsedMs(now, ctx[s].start_at))
    /\ recorded' = [recorded EXCEPT ![s] = @ + 1]

\* A Drop for TimerContext that releases the context without recording.
TimerContext_drop_silent(s) ==
    /\ ctx' = [ctx EXCEPT ![s].live = FALSE]
    /\ UNCHANGED <<latency, recorded>>

\* Drop for TimerContext: self.stop().
TimerContext_drop(s) ==
    /\ TimerContext_stop(s)
    /\ ctx' = [ctx EXCEPT ![s].live = FALSE]

\* An explicit t.stop() on a session the caller holds.
ContextStop ==
    \E s \in Sessions :
        /\ ctx[s].kind = "scoped" /\ ctx[s].live /\ call[s].pc = "none"
        /\ ctx[s].stops < MaxStops
        /\ TimerContext_stop(s)
        /\ ctx' = [ctx EXCEPT ![s].stops = @ + 1]
        /\ UNCHANGED <<now, rate, call, marked, nonTimerVars>>

\* The scope of a session the caller holds ends.
ContextDrop ==
    \E s \in Sessions :
        /\ ctx[s].kind = "scoped" /\ ctx[s].live /\ call[s].pc = "none"
        /\ TimerContext_drop(s)
        /\ UNCHANGED <<now, rate, call, marked, nonTimerVars>>

(* -------------------------- TimerContextArc ---------------------------- *)
\* TimerContextArc::start_at: mark the rate meter, build the context.
TimerContextArc_start_at(s, start_at) ==
    /\ NextSession(s)
    /\ rate' = Mark(rate)
    /\ marked' = [marked EXCEPT ![s] = @ + 1]
    /\ ctx' = [ctx EXCEPT ![s] = [kind |-> "detached", start_at |-> start_at,
                                  stops |-> 0, live |-> TRUE]]

\* TimerContextArc::start: start_at(timer, Instant::now()).
TimerContextArc_start(s) == TimerContextArc_start_at(s, now)

ArcStart ==
    \E s \in Sessions :
        /\ TimerContextArc_start(s)
        /\ UNCHANGED <<now, latency, call, recorded, nonTimerVars>>

ArcStartAt ==
    \E s \in Sessions, t \in Instants :
        /\ TimerContextArc_start_at(s, t)
        /\ UNCHANGED <<now, latency, call, recorded, nonTimerVars>>

\* A TimerContextArc::stop that records only the first time it is called.
TimerContextArc_stop_once(s) ==
    IF recorded[s] = 0
    THEN /\ latency' = Update(latency, ElapsedMs(now, ctx[s].start_at))
         /\ recorded' = [recorded EXCEPT ![s] = @ + 1]
    ELSE UNCHANGED <<latency, recorded>>

\* TimerContextArc::stop: record the elapsed milliseconds.
TimerContextArc_stop(s) ==
    /\ latency' = Update(latency, ElapsedMs(now, ctx[s].start_at))
    /\ recorded' = [recorded EXCEPT ![s] = @ + 1]

\* A TimerContextArc whose drop records the latency like TimerContext's.
TimerContextArc_drop_records(s) ==
    /\ TimerContextArc_stop(s)
    /\ ctx' = [ctx EXCEPT ![s].live = FALSE]

\* TimerContextArc has no Drop impl: dropping it only releases the value.
TimerContextArc_drop(s) ==
    /\ ctx' = [ctx EXCEPT ![s].live = FALSE]
    /\ UNCHANGED <<latency, recorded>>

ArcStop ==
    \E s \in Sessions :
        /\ ctx[s].kind = "detached" /\ ctx[s].live
        /\ ctx[s].stops < MaxStops
        /\ TimerContextArc_stop(s)
        /\ ctx' = [ctx EXCEPT ![s].stops = @ + 1]
        /\ UNCHANGED <<now, rate, call, marked, nonTimerVars>>

ArcDrop ==
    \E s \in Sessions :
        /\ ctx[s].kind = "detached" /\ ctx[s].live
        /\ TimerContextArc_drop(s)
        /\ UNCHANGED <<now, rate, call, marked, nonTimerVars>>

(* --------------------------- Timer::scoped ----------------------------- *)
\* let ctx = self.start();
ScopedBegin ==
    \E s \in Sessions, r \in Results :
        /\ Timer_start(s)
        /\ call' = [call EXCEPT ![s] = [NoCall EXCEPT !.pc = "f", !.arg = r]]
        /\ UNCHANGED <<now, latency, recorded, nonTimerVars>>

\* A scoped() that evaluates f a second time to produce the result.
Scoped_call_f_twice(s) ==
    call' = [call EXCEPT ![s].pc = "stop", ![s].invoked = @ + 2,
                         ![s].result = call[s].arg]

\* let result = f();  -- f returns.
Scoped_call_f(s) ==
    call' = [call EXCEPT ![s].pc = "stop", ![s].invoked = @ + 1,
                         ![s].result = call[s].arg]

ScopedCallReturns ==
    \E s \in Sessions :
        /\ call[s].pc = "f"
        /\ Scoped_call_f(s)
        /\ UNCHANGED <<now, rate, latency, ctx, marked, recorded, nonTimerVars>>

\* let result = f();  -- f panics: unwinding drops ctx.
ScopedCallPanics ==
    \E s \in Sessions :
        /\ call[s].pc = "f"
        /\ call' = [call EXCEPT ![s].pc = "panicked", ![s].invoked = @ + 1]
        /\ TimerContext_drop(s)
        /\ UNCHANGED <<now, rate, marked, nonTimerVars>>

\* ctx.stop();
ScopedStop ==
    \E s \in Sessions :
        /\ call[s].pc = "stop"
        /\ TimerContext_stop(s)
        /\ ctx' = [ctx EXCEPT ![s].stops = @ + 1]
        /\ call' = [call EXCEPT ![s].pc = "exit"]
        /\ UNCHANGED <<now, rate, marked, nonTimerVars>>

\* result  -- the function returns, ctx goes out of scope.
Scoped_return(s) ==
    call' = [call EXCEPT ![s].pc = "returned", ![s].ret = call[s].result]

ScopedReturn ==
    \E s \in Sessions :
        /\ call[s].pc = "exit"
        /\ Scoped_return(s)
        /\ TimerContext_drop(s)
        /\ UNCHANGED <<now, rate, marked, nonTimerVars>>

Next ==
    \/ Tick
    \/ TimerStart
    \/ TimerStartAt
    \/ ContextStop
    \/ ContextDrop
    \/ ArcStart
    \/ ArcStartAt
    \/ ArcStop
    \/ ArcDrop
    \/ ScopedBegin
    \/ ScopedCallReturns
    \/ ScopedCallPanics
    \/ ScopedStop
    \/ ScopedReturn

Spec == Init /\ [][Next]_vars

(* -------------------------- global_registry ---------------------------- *)
\* A thread calls global_registry().
GlobalCall ==
    \E t \in Threads :
        /\ gpc[t] = "idle"
        /\ gpc' = [gpc EXCEPT ![t] = "get_or_init"]
        /\ UNCHANGED <<cell, constructed, reg, handle, snap, returned, registered, timerVars, serVars, readVars>>

\* OnceCell::get_or_init on an empty cell that claims nothing: every caller
\* that finds the cell empty goes on to run the initialiser.
OnceCell_claim_unguarded(t) ==
    /\ cell.state = "incomplete"
    /\ UNCHANGED cell

\* OnceCell::get_or_init on an empty cell: exactly one caller wins the
\* right to run the initialiser, the cell is marked as being initialised.
OnceCell_claim(t) ==
    /\ cell.state = "incomplete"
    /\ cell' = [cell EXCEPT !.state = "running"]

GlobalBeginInit ==
    \E t \in Threads :
        /\ gpc[t] = "get_or_init"
        /\ OnceCell_claim(t)
        /\ gpc' = [gpc EXCEPT ![t] = "init"]
        /\ UNCHANGED <<constructed, reg, handle, snap, returned, registered, timerVars, serVars, readVars>>

\* MetricsRegistry::arc: a new, empty registry instance.
MetricsRegistry_arc(r) ==
    /\ r = constructed + 1
    /\ constructed' = r
    /\ reg' = [reg EXCEPT ![r] = [n \in Names |-> Absent]]

\* A cell that takes the value but is never marked initialised.
OnceCell_set_unpublished(r) == cell' = [state |-> "running", value |-> r]

\* get_or_init stores the initialiser's result and marks the cell
\* initialised, which releases the waiting callers.
OnceCell_set(r) == cell' = [state |-> "complete", value |-> r]

\* The winner runs MetricsRegistry::arc and stores the result in the cell.
GlobalRunInit ==
    \E t \in Threads, r \in Registries :
        /\ gpc[t] = "init"
        /\ MetricsRegistry_arc(r)
        /\ OnceCell_set(r)
        /\ gpc' = [gpc EXCEPT ![t] = "get_or_init"]
        /\ UNCHANGED <<handle, snap, returned, registered, timerVars, serVars, readVars>>

\* get_or_init(..).clone(): the cell is initialised, the caller gets a
\* clone of the Arc stored in it.  Callers that find the cell being
\* initialised wait until it is.
Global_clone(t) ==
    /\ cell.state = "complete"
    /\ handle' = [handle EXCEPT ![t] = cell.value]
    /\ returned' = returned \cup {cell.value}

GlobalReturn ==
    \E t \in Threads :
        /\ gpc[t] = "get_or_init"
        /\ Global_clone(t)
        /\ gpc' = [gpc EXCEPT ![t] = "holding"]
        /\ UNCHANGED <<cell, constructed, reg, snap, registered, timerVars, serVars, readVars>>

\* The caller drops its Arc; the registry stays in the static cell.
GlobalDropHandle ==
    \E t \in Threads :
        /\ gpc[t] = "holding"
        /\ gpc' = [gpc EXCEPT ![t] = "idle"]
        /\ handle' = [handle EXCEPT ![t] = 0]
        /\ UNCHANGED <<cell, constructed, reg, snap, returned, registered, timerVars, serVars, readVars>>

\* MetricsRegistry::meter(name, t): get-or-create the meter called name.
MetricsRegistry_meter(r, n) ==
    reg' = [reg EXCEPT ![r][n] = IF @ = Absent THEN 0 ELSE @]

RegistryMeter ==
    \E t \in Threads, n \in Names :
        /\ gpc[t] = "holding"
        /\ MetricsRegistry_meter(handle[t], n)
        /\ registered' = registered \cup {n}
        /\ UNCHANGED <<cell, constructed, gpc, handle, snap, returned, timerVars, serVars, readVars>>

\* Meter::mark on a meter obtained from the registry.
RegistryMeterMark ==
    \E t \in Threads, n \in Names :
        /\ gpc[t] = "holding"
        /\ reg[handle[t]][n] # Absent
        /\ reg[handle[t]][n] < MaxMarks
        /\ reg' = [reg EXCEPT ![handle[t]][n] = Mark(@)]
        /\ UNCHANGED <<cell, constructed, gpc, handle, snap, returned, registered, timerVars, serVars, readVars>>

\* MetricsRegistry::snapshots: every registered name with its snapshot.
MetricsRegistry_snapshots(r) ==
    [n \in {m \in Names : reg[r][m] # Absent} |-> reg[r][n]]

RegistrySnapshots ==
    \E t \in Threads :
        /\ gpc[t] = "holding"
        /\ snap' = [taken |-> TRUE, result |-> MetricsRegistry_snapshots(handle[t]),
                    known |-> registered]
        /\ UNCHANGED <<cell, constructed, reg, gpc, handle, returned, registered, timerVars, serVars, readVars>>

NextGlobal ==
    \/ GlobalCall
    \/ GlobalBeginInit
    \/ GlobalRunInit
    \/ GlobalReturn
    \/ GlobalDropHandle
    \/ RegistryMeter
    \/ RegistryMeterMark
    \/ RegistrySnapshots

SpecGlobal == Init /\ [][NextGlobal]_vars

\* The steps of thread t inside global_registry().
GlobalProgress(t) ==
    /\ GlobalBeginInit \/ GlobalRunInit \/ GlobalReturn
    /\ gpc'[t] # gpc[t]

\* Fair scheduling: a thread that can continue inside global_registry()
\* eventually does.
FairSpecGlobal ==
    Init /\ [][NextGlobal]_vars /\ \A t \in Threads : WF_vars(GlobalProgress(t))

(* ------------------------- HistogramSnapshot --------------------------- *)
RECURSIVE SortedInsert(_, _)
SortedInsert(sq, v) ==
    IF sq = <<>> THEN <<v>>
    ELSE IF v <= Head(sq) THEN <<v>> \o sq
    ELSE <<Head(sq)>> \o SortedInsert(Tail(sq), v)

RECURSIVE Sorted(_)
Sorted(h) == IF h = <<>> THEN <<>> ELSE SortedInsert(Sorted(Tail(h)), Head(h))

RECURSIVE SumSeq(_)
SumSeq(sq) == IF sq = <<>> THEN 0 ELSE Head(sq) + SumSeq(Tail(sq))

\* Histogram::snapshot: an immutable sorted copy of the observations (the
\* reservoir stays below its capacity here, nothing is evicted).
Histogram_snapshot(h) == Sorted(h)

\* The integer square root of x, searched by bisection in lo..hi.
RECURSIVE ISqrtIn(_, _, _)
ISqrtIn(x, lo, hi) ==
    IF lo >= hi THEN lo
    ELSE LET mid == (lo + hi + 1) \div 2
         IN IF mid * mid <= x THEN ISqrtIn(x, mid, hi) ELSE ISqrtIn(x, lo, mid - 1)

\* The statistics of a snapshot.  Floating point results are kept as
\* integers in thousandths; an empty snapshot yields 0.
SnapshotMean(sn) == IF sn = <<>> THEN 0 ELSE (SumSeq(sn) * 1000) \div Len(sn)
SnapshotMax(sn) == IF sn = <<>> THEN 0 ELSE sn[Len(sn)]
SnapshotMin(sn) == IF sn = <<>> THEN 0 ELSE sn[1]
SnapshotStddev(sn) ==
    IF sn = <<>> THEN 0
    ELSE LET n == Len(sn)
             sum == SumSeq(sn)
             sumsq == SumSeq([i \in 1..n |-> sn[i] * sn[i]])
             var == ((n * sumsq - sum * sum) * 1000000) \div (n * n)
         IN ISqrtIn(var, 0, 1000 * (sn[n] - sn[1]))

\* quantile(q), q in thousandths: interpolate at rank q * (n - 1).
SnapshotQuantile(sn, q) ==
    IF sn = <<>> THEN 0
    ELSE LET n == Len(sn)
             pos == q * (n - 1)
             lo == (pos \div 1000) + 1
             hi == IF lo < n THEN lo + 1 ELSE lo
         IN sn[lo] * 1000 + (sn[hi] - sn[lo]) * (pos % 1000)

\* Meter::m1_rate / m5_rate / m15_rate: no tick interval elapses within the
\* time horizon of the model, the decaying rates are still at their start.
MeterRate(m, window) == 0

(* ------------------------ Serialize for Timer -------------------------- *)
\* Timer::rate: the live meter.
Timer_rate == rate

\* Timer::latency: self.latency.snapshot().
Timer_latency == Histogram_snapshot(latency)

\* A serializer that calls self.latency() again for every latency entry.
Serialize_latency_fresh(taken) == Timer_latency

\* The latency snapshot the entries read: the local bound once before the
\* first entry.
Serialize_latency(taken) == taken

\* The i-th map.serialize_entry call.
Serialize_entry(i, m, sn) ==
    CASE i = 1 -> [key |-> "count", value |-> m]
      [] i = 2 -> [key |-> "m1_rate", value |-> MeterRate(m, 1)]
      [] i = 3 -> [key |-> "m5_rate", value |-> MeterRate(m, 5)]
      [] i = 4 -> [key |-> "m15_rate", value |-> MeterRate(m, 15)]
      [] i = 5 -> [key |-> "mean", value |-> SnapshotMean(sn)]
      [] i = 6 -> [key |-> "max", value |-> SnapshotMax(sn)]
      [] i = 7 -> [key |-> "min", value |-> SnapshotMin(sn)]
      [] i = 8 -> [key |-> "stddev", value |-> SnapshotStddev(sn)]
      [] i = 9 -> [key |-> "p50", value |-> SnapshotQuantile(sn, 500)]
      [] i = 10 -> [key |-> "p75", value |-> SnapshotQuantile(sn, 750)]
      [] i = 11 -> [key |-> "p90", value |-> SnapshotQuantile(sn, 900)]
      [] i = 12 -> [key |-> "p99", value |-> SnapshotQuantile(sn, 990)]
      [] i = 13 -> [key |-> "p999", value |-> SnapshotQuantile(sn, 999)]

\* The number of serialize_entry calls in Serialize for Timer.
EntryCalls == 13

\* serializer.serialize_map(Some(13)); let rate = self.rate();
\* let latency = self.latency();
SerializeBegin ==
    /\ ser.pc \in {"idle", "done"}
    /\ ser' = [pc |-> "entries", declared |-> 13, latency |-> Timer_latency,
               out |-> <<>>]
    /\ UNCHANGED <<timerVars, globalVars, readVars>>

\* The next map.serialize_entry(key, value).
SerializeEntry ==
    /\ ser.pc = "entries"
    /\ Len(ser.out) < EntryCalls
    /\ ser' = [ser EXCEPT !.out = Append(@, Serialize_entry(Len(ser.out) + 1,
                                    Timer_rate, Serialize_latency(ser.latency)))]
    /\ UNCHANGED <<timerVars, globalVars, readVars>>

\* map.end()
SerializeEnd ==
    /\ ser.pc = "entries"
    /\ Len(ser.out) = EntryCalls
    /\ ser' = [ser EXCEPT !.pc = "done"]
    /\ UNCHANGED <<timerVars, globalVars, readVars>>

\* Serialization of a Timer that other threads keep using.
NextSer ==
    \/ Tick
    \/ TimerStart
    \/ ContextStop
    \/ SerializeBegin
    \/ SerializeEntry
    \/ SerializeEnd

SpecSer == Init /\ [][NextSer]_vars

(* ----------------------- reading a Timer ------------------------------- *)
\* A latency() that also marks the rate meter.
Timer_latency_call_marks ==
    /\ held' = [held EXCEPT !.taken = TRUE, !.snapshot = Timer_latency]
    /\ rate' = Mark(rate)
    /\ UNCHANGED latency

\* Timer::latency(&self): the caller receives the HistogramSnapshot.
Timer_latency_call ==
    /\ held' = [held EXCEPT !.taken = TRUE, !.snapshot = Timer_latency]
    /\ UNCHANGED <<rate, latency>>

TimerLatencyRead ==
    /\ Timer_latency_call
    /\ UNCHANGED <<now, ctx, call, marked, recorded, globalVars, serVars>>

\* Timer::rate(&self).count(): the caller reads the live meter.
Timer_rate_call ==
    /\ held' = [held EXCEPT !.count = Timer_rate]
    /\ UNCHANGED <<rate, latency>>

TimerRateRead ==
    /\ Timer_rate_call
    /\ UNCHANGED <<now, ctx, call, marked, recorded, globalVars, serVars>>

\* A snapshot that is a view of the live histogram.
HistogramSnapshot_values_live(sn, live) == Histogram_snapshot(live)

\* The values a HistogramSnapshot answers from: its own copy.
HistogramSnapshot_values(sn, live) == sn

\* Every field of the snapshot the reader holds.
HeldFields ==
    LET sn == HistogramSnapshot_values(held.snapshot, latency)
    IN <<sn, SnapshotMean(sn), SnapshotMax(sn), SnapshotMin(sn),
         SnapshotStddev(sn), SnapshotQuantile(sn, 500),
         SnapshotQuantile(sn, 750), SnapshotQuantile(sn, 900),
         SnapshotQuantile(sn, 990), SnapshotQuantile(sn, 999)>>

\* Readers of a Timer that other threads keep using.
NextRead ==
    \/ Tick
    \/ TimerStart
    \/ ContextStop
    \/ ContextDrop
    \/ ArcStart
    \/ ArcStop
    \/ TimerLatencyRead
    \/ TimerRateRead

SpecRead == Init /\ [][NextRead]_vars

\* A reader that holds a latency snapshot while scoped sessions complete.
NextHeld ==
    \/ Tick
    \/ TimerStart
    \/ ContextStop
    \/ ContextDrop
    \/ TimerLatencyRead

SpecHeld == Init /\ [][NextHeld]_vars

(* ------------------------------ claims --------------------------------- *)
UserScoped(s) == ctx[s].kind = "scoped" /\ call[s].pc = "none"

\* C1: a scoped session started by Timer::start / start_at, stopped
\* explicitly exactly once and then dropped, has marked the rate meter
\* exactly once and added exactly one latency sample (samples are u64, >= 0).
C1_StopThenScopeEndRecordsOnce ==
    \A s \in Sessions :
        (UserScoped(s) /\ ctx[s].stops = 1 /\ ~ctx[s].live)
            => (marked[s] = 1 /\ recorded[s] = 1)

\* C2: a scoped session that is never stopped explicitly and whose scope
\* has ended has added exactly one latency sample and one rate mark.
C2_ScopeEndRecordsOnce ==
    \A s \in Sessions :
        (UserScoped(s) /\ ctx[s].stops = 0 /\ ~ctx[s].live)
            => (recorded[s] = 1 /\ marked[s] = 1)

C2_Witness ==
    \E s \in Sessions :
        /\ UserScoped(s) /\ ctx[s].stops = 0 /\ ~ctx[s].live
        /\ recorded[s] = 1 /\ rate >= 1 /\ Len(latency) >= 1

C4_ScopedReturnsResult ==
    \A s \in Sessions :
        call[s].pc = "returned"
            => /\ call[s].invoked = 1
               /\ call[s].ret = call[s].arg
               /\ call[s].ret \in Results
               /\ marked[s] = 1

C4_Witness ==
    \E s \in Sessions : call[s].pc = "returned" /\ call[s].ret = "r2" /\ rate = 1

\* C5: a call of Timer::scoped(f) that returned normally has added exactly
\* one sample to the latency histogram.
C5_ScopedRecordsOnce ==
    \A s \in Sessions : call[s].pc = "returned" => recorded[s] = 1

\* A session is completed once it was stopped or, for a scoped one, dropped.
Completed(s) ==
    \/ ctx[s].stops >= 1
    \/ ctx[s].kind = "scoped" /\ ~ctx[s].live

AllCompleted == Started # {} /\ \A s \in Started : Completed(s)

\* C6: once every started session has been completed, rate().count()
\* equals the number of samples recorded in the latency histogram.
C6_CountsAgreeWhenAllCompleted ==
    AllCompleted => rate = Len(latency)

\* C7: every session start marks the rate meter exactly once: the rate
\* count equals the number of sessions started, whatever their state.
C7_RateCountsStarts ==
    /\ rate = Cardinality(Started)
    /\ \A s \in Sessions : marked[s] = (IF s \in Started THEN 1 ELSE 0)

C7_Witness ==
    /\ rate = 2
    /\ \E s, d \in Sessions :
        /\ ctx[s].kind = "scoped" /\ ~ctx[s].live
        /\ ctx[d].kind = "detached" /\ ctx[d].live /\ ctx[d].stops = 1

\* C8: under any interleaving of global_registry() calls MetricsRegistry is
\* constructed at most once, every handle ever returned or held refers to
\* the one instance stored in the cell, and an initialised cell is never
\* replaced or reset.
C8_SingleRegistry ==
    /\ [](/\ constructed <= 1
          /\ Cardinality(returned) <= 1
          /\ cell.state = "complete" => (constructed = 1 /\ cell.value = 1)
          /\ \A t \in Threads : gpc[t] = "holding" => handle[t] = cell.value
          /\ returned # {} => returned = {cell.value})
    /\ [][cell.state = "complete" => cell' = cell]_vars

C8_Witness ==
    /\ \A t \in Threads : gpc[t] = "holding" /\ handle[t] = 1
    /\ constructed = 1

\* C9: every name registered through a handle of global_registry() is in
\* the mapping a later snapshots() on the global registry returns, through
\* whichever call of global_registry() the handle was obtained.
C9_SnapshotsHoldRegistered ==
    snap.taken => (snap.known \subseteq DOMAIN snap.result)

C9_Witness ==
    /\ snap.taken /\ snap.known = Names /\ DOMAIN snap.result = Names
    /\ snap.result["hello"] = 1

\* C10: a finished serialization of a Timer holds exactly 13 entries, keyed
\* count, m1_rate, m5_rate, m15_rate, mean, max, min, stddev, p50, p75, p90,
\* p99, p999 in this order; p50..p999 are the 0.50, 0.75, 0.90, 0.99 and
\* 0.999 quantiles, and all nine latency fields are those of the single
\* snapshot taken when the serialization began.
C10_SerializedTimer ==
    ser.pc = "done" =>
        /\ Len(ser.out) = 13
        /\ ser.declared = 13
        /\ [i \in 1..13 |-> ser.out[i].key]
             = <<"count", "m1_rate", "m5_rate", "m15_rate", "mean", "max",
                 "min", "stddev", "p50", "p75", "p90", "p99", "p999">>
        /\ ser.out[5].value = SnapshotMean(ser.latency)
        /\ ser.out[6].value = SnapshotMax(ser.latency)
        /\ ser.out[7].value = SnapshotMin(ser.latency)
        /\ ser.out[8].value = SnapshotStddev(ser.latency)
        /\ ser.out[9].value = SnapshotQuantile(ser.latency, 500)
        /\ ser.out[10].value = SnapshotQuantile(ser.latency, 750)
        /\ ser.out[11].value = SnapshotQuantile(ser.latency, 900)
        /\ ser.out[12].value = SnapshotQuantile(ser.latency, 990)
        /\ ser.out[13].value = SnapshotQuantile(ser.latency, 999)

C10_Witness ==
    /\ ser.pc = "done"
    /\ ser.latency = <<0, 1>>
    /\ Len(latency) > 2
    /\ [i \in 9..13 |-> ser.out[i].value]
         = [i \in 9..13 |-> <<500, 750, 900, 990, 999>>[i - 8]]
    /\ ser.out[5].value = 500 /\ ser.out[6].value = 1 /\ ser.out[7].value = 0

C12_LatencyNeverAhead ==
    /\ \A s \in Sessions : recorded[s] > 0 => marked[s] = 1
    /\ Len(latency) <= rate

\* C13: when the operation passed to Timer::scoped panics, the session is
\* still completed: one rate mark and exactly one latency sample.
C13_PanicStillRecordsOnce ==
    \A s \in Sessions :
        call[s].pc = "panicked"
            => (marked[s] = 1 /\ recorded[s] = 1 /\ ~ctx[s].live)

C13_Witness ==
    \E s \in Sessions :
        /\ call[s].pc = "panicked" /\ call[s].invoked = 1
        /\ rate = 1 /\ Len(latency) = 1

\* C14: the sample a completion records is the whole number of
\* milliseconds from the session's start timestamp to the instant of the
\* completion, and it is never negative, also when the start timestamp is
\* not earlier than that instant.
C14_SampleIsElapsedMs ==
    [][\A s \in Sessions :
         recorded'[s] # recorded[s] =>
            LET v == latency'[Len(latency')]
                d == now - ctx[s].start_at
            IN /\ Len(latency') = Len(latency) + 1
               /\ v >= 0
               /\ d >= 0 => (v * UnitsPerMs <= d /\ d < (v + 1) * UnitsPerMs)]_vars

C14_Witness ==
    \E s, u \in Sessions :
        /\ ctx[s].kind # "none" /\ ctx[s].start_at > now /\ recorded[s] >= 1
        /\ ctx[u].kind # "none" /\ ctx[u].start_at < now /\ recorded[u] >= 1
        /\ latency = <<0, 0>>

\* C15: every stop on a detached session adds one latency sample and
\* leaves the session usable: the samples contributed by detached sessions
\* equal the number of stop calls made on them.
C15_DetachedSamplesEqualStops ==
    /\ \A s \in Sessions : ctx[s].kind = "detached" => recorded[s] = ctx[s].stops
    /\ (\A s \in Started : ctx[s].kind = "detached")
           => Len(latency) = SumSeq([s \in Sessions |-> ctx[s].stops])

C15_Witness ==
    \E s \in Sessions :
        /\ ctx[s].kind = "detached" /\ ctx[s].live
        /\ ctx[s].stops = 2 /\ Len(latency) = 2 /\ rate = 1

\* C16: completing a session leaves rate().count() unchanged, starting a
\* session leaves the number of latency samples unchanged, and the reads
\* Timer::rate() and Timer::latency() change neither.
C16_Frames ==
    [][/\ (\E s \in Sessions :
              \/ recorded'[s] # recorded[s]
              \/ ctx'[s].stops # ctx[s].stops
              \/ ctx[s].live /\ ~ctx'[s].live) => rate' = rate
       /\ Started' # Started => Len(latency') = Len(latency)
       /\ held' # held => (rate' = rate /\ latency' = latency)]_vars

C16_Witness ==
    /\ held.taken /\ held.snapshot = <<0>> /\ held.count = 2
    /\ rate = 2 /\ Len(latency) = 2
    /\ \E s, d \in Sessions :
        /\ ctx[s].kind = "scoped" /\ ~ctx[s].live
        /\ ctx[d].kind = "detached" /\ ctx[d].stops = 1

\* C17: under fair scheduling every call of global_registry() eventually
\* returns a handle, also for callers that arrive while another thread runs
\* the initialisation, and a returned handle always refers to the
\* initialised registry.
C17_EveryCallReturns ==
    /\ \A t \in Threads :
          (gpc[t] \in {"get_or_init", "init"}) ~> (gpc[t] = "holding")
    /\ [](\A t \in Threads :
            gpc[t] = "holding" =>
                (cell.state = "complete" /\ handle[t] = cell.value
                 /\ handle[t] \in 1..constructed))

C17_Witness ==
    /\ cell.state = "running"
    /\ \E t, u \in Threads : gpc[t] = "init" /\ gpc[u] = "get_or_init"
====
